---- MODULE Spec2Model ----
(***************************************************************************)
(* Model of the QR layout generator of src/index.ts: the version table and *)
(* its estimated fallback, the version selection, the block-size search,   *)
(* and the drawing calls that textToCanvas issues on a canvas context.     *)
(*                                                                         *)
(* A text is represented by its length (text.length is all the code reads),*)
(* a canvas by whether getContext("2d") yields a context and by its width. *)
(* The surface is the set of pixels covered by fillRect; path calls        *)
(* (moveTo, lineTo, stroke) are kept in the log of drawing calls only.     *)
(***************************************************************************)
EXTENDS Integers, Sequences, FiniteSets, TLC

VARIABLES canva, text, config, status, versionSpec, blockSize, calls,
          entries, pixels, renders, args, ret

vars == <<canva, text, config, status, versionSpec, blockSize, calls,
          entries, pixels, renders, args, ret>>

(***************************************************************************)
(* Bounds of the model.                                                    *)
(***************************************************************************)
\* render inputs: text lengths 0, TextStep, ..., MaxTextSteps * TextStep
TextStep == 15
MaxTextSteps == 20
\* render inputs: canvas widths WidthStep, ..., MaxWidthSteps * WidthStep
WidthStep == 20
MaxWidthSteps == 3
\* how many times textToCanvas is called on the same canvas
MaxRenders == 2
\* inputs of findBestConfig alone: 0..MaxTextLength and one huge length
MaxTextLength == 300
HugeTextLength == 10000
\* inputs of getBlockSize alone
MaxWidth == 40
MaxBlockNumber == 25

(***************************************************************************)
(* Program constants.                                                      *)
(***************************************************************************)
MaxVersion == 10
GridLineWidth == 10

Levels == {"L", "M", "Q", "H"}
Undefined == "undefined"

EC(d, e, b, dpb, epb) ==
    [dataCodewords |-> d, ecCodewords |-> e, blocks |-> b,
     dataPerBlock |-> dpb, ecPerBlock |-> epb]

QR_SPECIFICATIONS ==
    [v \in 1..5 |->
        CASE v = 1 ->
               [version |-> 1, module |-> 21, totalCodewords |-> 26,
                errorCorrection |->
                    [L |-> EC(19, 7, 1, 19, 7),  M |-> EC(16, 10, 1, 16, 10),
                     Q |-> EC(13, 13, 1, 13, 13), H |-> EC(9, 17, 1, 9, 17)],
                alignmentPositions |-> <<>>, numberOfBits |-> 8]
          [] v = 2 ->
               [version |-> 2, module |-> 25, totalCodewords |-> 44,
                errorCorrection |->
                    [L |-> EC(34, 10, 1, 34, 10), M |-> EC(28, 16, 1, 28, 16),
                     Q |-> EC(22, 22, 1, 22, 22), H |-> EC(16, 28, 1, 16, 28)],
                alignmentPositions |-> <<6, 18>>, numberOfBits |-> 8]
          [] v = 3 ->
               [version |-> 3, module |-> 29, totalCodewords |-> 70,
                errorCorrection |->
                    [L |-> EC(55, 15, 1, 55, 15), M |-> EC(44, 26, 1, 44, 26),
                     Q |-> EC(34, 36, 2, 17, 18), H |-> EC(26, 44, 2, 13, 22)],
                alignmentPositions |-> <<6, 22>>, numberOfBits |-> 8]
          [] v = 4 ->
               [version |-> 4, module |-> 33, totalCodewords |-> 100,
                errorCorrection |->
                    [L |-> EC(80, 20, 1, 80, 20), M |-> EC(64, 36, 2, 32, 18),
                     Q |-> EC(48, 52, 2, 24, 26), H |-> EC(36, 64, 4, 9, 16)],
                alignmentPositions |-> <<6, 26>>, numberOfBits |-> 8]
          [] v = 5 ->
               [version |-> 5, module |-> 37, totalCodewords |-> 134,
                errorCorrection |->
                    [L |-> EC(108, 26, 1, 108, 26), M |-> EC(86, 48, 2, 43, 24),
                     Q |-> EC(62, 72, 2, 31, 36),   H |-> EC(46, 88, 2, 23, 44)],
                alignmentPositions |-> <<6, 30>>, numberOfBits |-> 8]]

calculateModules(version) == 21 + 4 * (version - 1)

\* Math.floor(baseCapacity * 0.pct): the products of the versions the scan
\* reaches are far from an integer boundary, so the IEEE product floors to
\* the same integer as the exact one.
FloorPct(baseCapacity, pct) == (baseCapacity * pct) \div 100

EstimatedEC(baseCapacity, dataPct) ==
    EC(FloorPct(baseCapacity, dataPct), FloorPct(baseCapacity, 100 - dataPct), 1,
       FloorPct(baseCapacity, dataPct), FloorPct(baseCapacity, 100 - dataPct))

EstimatedSpec(version, baseCapacity) ==
    [version |-> version, module |-> calculateModules(version),
     totalCodewords |-> baseCapacity,
     errorCorrection |->
         [L |-> EstimatedEC(baseCapacity, 77), M |-> EstimatedEC(baseCapacity, 64),
          Q |-> EstimatedEC(baseCapacity, 48), H |-> EstimatedEC(baseCapacity, 34)],
     alignmentPositions |->
         IF version = 1 THEN <<>> ELSE <<6, 6 + 4 * (version - 1)>>,
     numberOfBits |-> IF version < 10 THEN 8 ELSE 16]

\* a fallback whose rough estimate counts sixteen modules per codeword
getQRSpecCoarse(version) ==
    IF version \in DOMAIN QR_SPECIFICATIONS
    THEN QR_SPECIFICATIONS[version]
    ELSE EstimatedSpec(version,
            (calculateModules(version) * calculateModules(version) - 225) \div 16)

getQRSpec(version) ==
    IF version \in DOMAIN QR_SPECIFICATIONS
    THEN QR_SPECIFICATIONS[version]
    ELSE EstimatedSpec(version,
            (calculateModules(version) * calculateModules(version) - 225) \div 8)

NoSpec == [version |-> 0, module |-> 0, alignmentPositions |-> <<>>]

(***************************************************************************)
(* findBestConfig: validation, then the ascending scan of versions.        *)
(***************************************************************************)
RECURSIVE scanVersions(_, _, _)
scanVersions(version, textLength, ecLevel) ==
    IF version > MaxVersion
    THEN [error |-> "TextTooLong", spec |-> NoSpec]
    ELSE IF textLength <= getQRSpec(version).errorCorrection[ecLevel].dataCodewords
         THEN [error |-> "none", spec |-> getQRSpec(version)]
         ELSE scanVersions(version + 1, textLength, ecLevel)

\* the scan with a strict comparison: a text needs spare capacity
RECURSIVE scanVersionsStrict(_, _, _)
scanVersionsStrict(version, textLength, ecLevel) ==
    IF version > MaxVersion
    THEN [error |-> "TextTooLong", spec |-> NoSpec]
    ELSE IF textLength < getQRSpec(version).errorCorrection[ecLevel].dataCodewords
         THEN [error |-> "none", spec |-> getQRSpec(version)]
         ELSE scanVersionsStrict(version + 1, textLength, ecLevel)

findBestConfigStrict(textLength, encodingType, errorCorrectionLevel) ==
    IF encodingType # "binary"
    THEN [error |-> "UnsupportedEncoding", spec |-> NoSpec]
    ELSE IF errorCorrectionLevel \notin Levels
         THEN [error |-> "UnsupportedLevel", spec |-> NoSpec]
         ELSE scanVersionsStrict(1, textLength, errorCorrectionLevel)

findBestConfig(textLength, encodingType, errorCorrectionLevel) ==
    IF encodingType # "binary"
    THEN [error |-> "UnsupportedEncoding", spec |-> NoSpec]
    ELSE IF errorCorrectionLevel \notin Levels
         THEN [error |-> "UnsupportedLevel", spec |-> NoSpec]
         ELSE scanVersions(1, textLength, errorCorrectionLevel)

(***************************************************************************)
(* getBlockSize: decrement the width until the module count divides it.    *)
(***************************************************************************)
RECURSIVE shrinkWidth(_, _)
shrinkWidth(width, blockNumber) ==
    IF width % blockNumber # 0
    THEN shrinkWidth(width - 1, blockNumber)
    ELSE width

getBlockSize(width, blockNumber) == shrinkWidth(width, blockNumber) \div blockNumber

(***************************************************************************)
(* Drawing calls.  A call records the context method, the part of the      *)
(* symbol whose code issues it, and its arguments in pixels.               *)
(***************************************************************************)
FillRect(part, x, y, w, h) ==
    [op |-> "fillRect", part |-> part, x |-> x, y |-> y, w |-> w, h |-> h]

PathCall(op, x, y) ==
    [op |-> op, part |-> "grid", x |-> x, y |-> y, w |-> 0, h |-> 0]

\* addEncoding: bit i of the mode indicator fills cell i of the 2x2 square
\* at the bottom-right corner when it is 1
EncodingPositions == <<[x |-> 0, y |-> 0], [x |-> 1, y |-> 0],
                       [x |-> 0, y |-> 1], [x |-> 1, y |-> 1]>>

RECURSIVE encodeFrom(_, _, _, _)
encodeFrom(index, blockSize_, blockNumber, encoding) ==
    IF index > Len(encoding) THEN <<>>
    ELSE (IF index <= Len(EncodingPositions) /\ encoding[index] = 1
          THEN <<FillRect("mode",
                    (blockNumber - 2) * blockSize_ + EncodingPositions[index].x * blockSize_,
                    (blockNumber - 2) * blockSize_ + EncodingPositions[index].y * blockSize_,
                    blockSize_, blockSize_)>>
          ELSE <<>>)
         \o encodeFrom(index + 1, blockSize_, blockNumber, encoding)

addEncoding(blockSize_, blockNumber, encoding) ==
    encodeFrom(1, blockSize_, blockNumber, encoding)

\* addBlockGrid: the line width, blockNumber vertical lines, blockNumber
\* horizontal lines, one stroke
addBlockGrid(blockNumber, blockSize_) ==
    <<PathCall("setLineWidth", GridLineWidth, 0)>>
    \o [k \in 1..(2 * blockNumber) |->
          IF k % 2 = 1
          THEN PathCall("moveTo", ((k - 1) \div 2) * blockSize_, 0)
          ELSE PathCall("lineTo", ((k - 1) \div 2) * blockSize_, blockNumber * blockSize_)]
    \o [k \in 1..(2 * blockNumber) |->
          IF k % 2 = 1
          THEN PathCall("moveTo", 0, ((k - 1) \div 2) * blockSize_)
          ELSE PathCall("lineTo", blockNumber * blockSize_, ((k - 1) \div 2) * blockSize_)]
    \o <<PathCall("stroke", 0, 0)>>

\* the loop bound with the width of one finder pattern subtracted, not two
fixIterationsOneFinder(blockNumber) ==
    LET twice == (blockNumber - 7) - 1
    IN  IF twice <= 0 THEN 0 ELSE (twice + 1) \div 2

\* the number of iterations of "for (i = 0; i < fixBlockNumber; ++i)" with
\* fixBlockNumber = ((blockNumber - 2 * 7) - 1) / 2, a real division
fixIterations(blockNumber) ==
    LET twice == (blockNumber - 2 * 7) - 1
    IN  IF twice <= 0 THEN 0 ELSE (twice + 1) \div 2

\* addQrAnchor: three finder patterns of five rectangles each, then the
\* fixed pattern on row 6 and column 6
addQrAnchor(blockNumber, blockSize_) ==
    LET b == blockSize_
        far == (blockNumber - 7) * b
    IN  <<FillRect("finder", 0, 0, 7 * b, b),
          FillRect("finder", 0, 0, b, 7 * b),
          FillRect("finder", 6 * b, 0, b, 7 * b),
          FillRect("finder", 0, 6 * b, 7 * b, b),
          FillRect("finder", 2 * b, 2 * b, 3 * b, 3 * b),
          \* bottom left
          FillRect("finder", 0, far, b * 7, b),
          FillRect("finder", 0, far, b, 7 * b),
          FillRect("finder", 6 * b, far, b, 7 * b),
          FillRect("finder", 0, far + 6 * b, 7 * b, b),
          FillRect("finder", 2 * b, far + 2 * b, 3 * b, 3 * b),
          \* top right
          FillRect("finder", far, 0, 7 * b, b),
          FillRect("finder", far, 0, b, 7 * b),
          FillRect("finder", far + 6 * b, 0, b, 7 * b),
          FillRect("finder", far, 0 + 6 * b, 7 * b, b),
          FillRect("finder", far + 2 * b, 2 * b, 3 * b, 3 * b)>>
        \o [k \in 1..(2 * fixIterations(blockNumber)) |->
              IF k % 2 = 1
              THEN FillRect("strip", (8 + 2 * ((k - 1) \div 2)) * b, 6 * b, b, b)
              ELSE FillRect("strip", 6 * b, (8 + 2 * ((k - 1) \div 2)) * b, b, b)]

(***************************************************************************)
(* addAlignementPattern.                                                   *)
(***************************************************************************)
\* the exclusion test without the top-left zone
isCoordinateForbidenNoTopLeft(module, coords) ==
    \/ (coords.x >= module - 8 /\ coords.y <= 8)
    \/ (coords.x <= 8 /\ coords.y >= module - 8)

\* the exclusion test without the top-right zone
isCoordinateForbidenNoTopRight(module, coords) ==
    \/ (coords.x <= 8 /\ coords.y <= 8)
    \/ (coords.x <= 8 /\ coords.y >= module - 8)

isCoordinateForbiden(module, coords) ==
    \/ (coords.x <= 8 /\ coords.y <= 8)
    \/ (coords.x >= module - 8 /\ coords.y <= 8)
    \/ (coords.x <= 8 /\ coords.y >= module - 8)

\* the inner loop "for (i = 0; i < len; ++i)" for one axis value v, from the
\* one-based index i on; the result is alreadySeens when the loop ends
RECURSIVE alignColumn(_, _, _, _, _)
alignColumn(v, i, alignmentPositions, module, alreadySeens) ==
    IF i > Len(alignmentPositions) THEN alreadySeens
    ELSE LET entry == [x |-> v, y |-> alignmentPositions[i]]
         IN  IF /\ ~ \E k \in DOMAIN alreadySeens :
                        alreadySeens[k].x = entry.x /\ alreadySeens[k].y = entry.y
                /\ ~ isCoordinateForbiden(module, entry)
             THEN alignColumn(v, i + 1, alignmentPositions, module,
                              Append(alreadySeens, entry))
             ELSE alignColumn(v, i + 1, alignmentPositions, module, alreadySeens)

\* the outer forEach, from the one-based index on: the entries drawn, in
\* the order in which they are drawn (alreadySeens starts empty for each v)
RECURSIVE alignFrom(_, _, _)
alignFrom(index, alignmentPositions, module) ==
    IF index > Len(alignmentPositions) THEN <<>>
    ELSE alignColumn(alignmentPositions[index], 1, alignmentPositions, module, <<>>)
         \o alignFrom(index + 1, alignmentPositions, module)

\* the outer forEach pairing every axis value with itself only
alignmentEntriesDiagonal(config_) ==
    LET ap == getQRSpec(config_.version).alignmentPositions
    IN  SelectSeq([k \in 1..Len(ap) |-> [x |-> ap[k], y |-> ap[k]]],
                  LAMBDA e : ~ isCoordinateForbiden(config_.module, e))

\* the entries addAlignementPattern draws for the version spec config_
alignmentEntries(config_) ==
    alignFrom(1, getQRSpec(config_.version).alignmentPositions, config_.module)

\* the five rectangles of one alignment pattern
alignmentRects(entry, b) ==
    <<FillRect("alignment", (entry.x - 2) * b, (entry.y - 2) * b, 5 * b, b),
      FillRect("alignment", (entry.x - 2) * b, (entry.y - 2) * b, b, 5 * b),
      FillRect("alignment", (entry.x + 2) * b, (entry.y - 2) * b, b, 5 * b),
      FillRect("alignment", (entry.x - 2) * b, (entry.y + 2) * b, 5 * b, b),
      FillRect("alignment", entry.x * b, entry.y * b, b, b)>>

RECURSIVE rectsOf(_, _)
rectsOf(drawn, b) ==
    IF drawn = <<>> THEN <<>>
    ELSE alignmentRects(Head(drawn), b) \o rectsOf(Tail(drawn), b)

addAlignementPattern(blockSize_, config_) ==
    rectsOf(alignmentEntries(config_), blockSize_)

(***************************************************************************)
(* The surface: fillRect covers the pixels x..x+w-1 by y..y+h-1 with the   *)
(* (opaque, default) fill style.                                           *)
(***************************************************************************)
RectPixels(call) ==
    (call.x .. (call.x + call.w - 1)) \X (call.y .. (call.y + call.h - 1))

IsFill(call) == call.op = "fillRect"

FilledBy(issued) ==
    UNION {RectPixels(issued[k]) : k \in {j \in DOMAIN issued : IsFill(issued[j])}}

\* fills that invert the pixels they cover (an "xor" composite operation):
\* a pixel ends up covered when it was inverted an odd number of times
PaintAllXor(surface, issued) ==
    {p \in surface \cup FilledBy(issued) :
        ((IF p \in surface THEN 1 ELSE 0)
         + Cardinality({k \in DOMAIN issued :
                          IsFill(issued[k]) /\ p \in RectPixels(issued[k])})) % 2 = 1}

\* the surface after the calls of issued: every fill adds the pixels of its
\* rectangle, path calls leave the filled surface alone
PaintAll(surface, issued) == surface \cup FilledBy(issued)

(***************************************************************************)
(* textToCanvas: the outcome of one call, as the status it ends with, the  *)
(* version spec and block size it computed, and the calls it issued.       *)
(***************************************************************************)
Default(value, default) == IF value = Undefined THEN default ELSE value

Thrown(kind) ==
    [status |-> kind, versionSpec |-> NoSpec, blockSize |-> 0,
     calls |-> <<>>, entries |-> <<>>]

bytesEncoding == <<0, 1, 0, 0>>

Drawn(found, width, isDebugContext) ==
    LET b == getBlockSize(width, found.spec.module)
    IN  [status |-> "done", versionSpec |-> found.spec, blockSize |-> b,
         calls |-> addEncoding(b, found.spec.module, bytesEncoding)
                   \o (IF isDebugContext THEN addBlockGrid(found.spec.module, b)
                       ELSE <<>>)
                   \o addQrAnchor(found.spec.module, b)
                   \o addAlignementPattern(b, found.spec),
         entries |-> alignmentEntries(found.spec)]

\* a render that clamps a too long text to the largest version, draws it,
\* and reports the error afterwards
textToCanvasLateThrow(canva_, text_, config_) ==
    IF ~ canva_.hasContext THEN Thrown("NoContext")
    ELSE LET found == findBestConfig(text_,
                          Default(config_.encodingType, "binary"),
                          Default(config_.errorCorrectionLevel, "L"))
         IN  IF found.error = "TextTooLong"
             THEN [Drawn([error |-> "none", spec |-> getQRSpec(MaxVersion)],
                         canva_.width, config_.isDebugContext)
                   EXCEPT !.status = "TextTooLong"]
             ELSE IF found.error # "none" THEN Thrown(found.error)
                  ELSE Drawn(found, canva_.width, config_.isDebugContext)

\* a render that draws the debug grid before everything else
textToCanvasGridFirst(canva_, text_, config_) ==
    IF ~ canva_.hasContext THEN Thrown("NoContext")
    ELSE LET found == findBestConfig(text_,
                          Default(config_.encodingType, "binary"),
                          Default(config_.errorCorrectionLevel, "L"))
             b == getBlockSize(canva_.width, found.spec.module)
         IN  IF found.error # "none" THEN Thrown(found.error)
             ELSE [Drawn(found, canva_.width, FALSE)
                   EXCEPT !.calls =
                       (IF config_.isDebugContext
                        THEN addBlockGrid(found.spec.module, b) ELSE <<>>) \o @]

textToCanvas(canva_, text_, config_) ==
    IF ~ canva_.hasContext THEN Thrown("NoContext")
    ELSE LET found == findBestConfig(text_,
                          Default(config_.encodingType, "binary"),
                          Default(config_.errorCorrectionLevel, "L"))
         IN  IF found.error # "none" THEN Thrown(found.error)
             ELSE Drawn(found, canva_.width, config_.isDebugContext)

(***************************************************************************)
(* State machine of rendering: a canvas, a text and a configuration are    *)
(* chosen, and textToCanvas is called on them up to MaxRenders times; the  *)
(* surface keeps what earlier calls drew.                                  *)
(***************************************************************************)
NoArgs == [fn |-> "none"]
NoRet == [fn |-> "none"]

TextLengths == {k * TextStep : k \in 0..MaxTextSteps}
Widths == {k * WidthStep : k \in 1..MaxWidthSteps}
EncodingTypes == {Undefined, "binary", "numeric"}
LevelInputs == Levels \cup {Undefined, "X"}

Init ==
    /\ canva \in [hasContext : BOOLEAN, width : Widths]
    /\ text \in TextLengths
    /\ config \in [isDebugContext : BOOLEAN, encodingType : EncodingTypes,
                   errorCorrectionLevel : LevelInputs]
    /\ status = "idle"
    /\ versionSpec = NoSpec
    /\ blockSize = 0
    /\ calls = <<>>
    /\ entries = <<>>
    /\ pixels = {}
    /\ renders = 0
    /\ args = NoArgs
    /\ ret = NoRet

TextToCanvas ==
    /\ renders < MaxRenders
    /\ LET r == textToCanvas(canva, text, config)
       IN  /\ status' = r.status
           /\ versionSpec' = r.versionSpec
           /\ blockSize' = r.blockSize
           /\ calls' = r.calls
           /\ entries' = r.entries
           /\ pixels' = PaintAll(pixels, r.calls)
    /\ renders' = renders + 1
    /\ UNCHANGED <<canva, text, config, args, ret>>

Next == TextToCanvas

Spec == Init /\ [][Next]_vars

(***************************************************************************)
(* findBestConfig on its own: the arguments are drawn, the function is     *)
(* applied once.                                                           *)
(***************************************************************************)
Idle ==
    /\ canva = [hasContext |-> FALSE, width |-> 0]
    /\ text = 0
    /\ config = [isDebugContext |-> FALSE, encodingType |-> Undefined,
                 errorCorrectionLevel |-> Undefined]
    /\ status = "idle"
    /\ versionSpec = NoSpec
    /\ blockSize = 0
    /\ calls = <<>>
    /\ entries = <<>>
    /\ pixels = {}
    /\ renders = 0

UnchangedRender ==
    UNCHANGED <<canva, text, config, status, versionSpec, blockSize, calls,
                entries, pixels, renders>>

SelectInit ==
    /\ Idle
    /\ args \in [fn : {"findBestConfig"},
                 textLength : (0..MaxTextLength) \cup {HugeTextLength},
                 encodingType : {"binary", "numeric"},
                 errorCorrectionLevel : Levels \cup {"X"}]
    /\ ret = NoRet

FindBestConfig ==
    /\ args.fn = "findBestConfig"
    /\ ret = NoRet
    /\ ret' = findBestConfig(args.textLength, args.encodingType,
                             args.errorCorrectionLevel)
    /\ UNCHANGED args
    /\ UnchangedRender

SelectNext == FindBestConfig

SelectSpec == SelectInit /\ [][SelectNext]_vars

(***************************************************************************)
(* getBlockSize on its own.                                                *)
(***************************************************************************)
BlockInit ==
    /\ Idle
    /\ args \in [fn : {"getBlockSize"}, width : 0..MaxWidth,
                 blockNumber : 1..MaxBlockNumber]
    /\ ret = NoRet

GetBlockSize ==
    /\ args.fn = "getBlockSize"
    /\ ret = NoRet
    /\ ret' = [fn |-> "getBlockSize",
               value |-> getBlockSize(args.width, args.blockNumber)]
    /\ UNCHANGED args
    /\ UnchangedRender

BlockNext == GetBlockSize

BlockSpec == BlockInit /\ [][BlockNext]_vars

(***************************************************************************)
(* Properties.                                                             *)
(***************************************************************************)
Versions == 1..MaxVersion

Capacity(version, level) == getQRSpec(version).errorCorrection[level].dataCodewords

\* the versions whose capacity at the level accommodates the length
Fitting(textLength, level) ==
    {v \in Versions : Capacity(v, level) >= textLength}

Least(S) == CHOOSE m \in S : \A n \in S : m <= n

SelectReturned ==
    /\ ret # NoRet
    /\ args.fn = "findBestConfig"
    /\ args.encodingType = "binary"
    /\ args.errorCorrectionLevel \in Levels

\* C1: for 'binary' and a level of {L,M,Q,H}, findBestConfig returns the spec
\* of the smallest version of 1..10 whose dataCodewords at the level is at
\* least textLength (so a length equal to a capacity selects that version;
\* 19 at L gives version 1, 20 at L gives version 2), and it fails with
\* TextTooLong exactly when no version of 1..10 has the capacity (10000 at H).
C1_SmallestFittingVersion ==
    SelectReturned =>
        LET fits == Fitting(args.textLength, args.errorCorrectionLevel)
        IN  /\ (fits = {}) <=> (ret.error = "TextTooLong")
            /\ fits # {} =>
                   /\ ret.error = "none"
                   /\ ret.spec = getQRSpec(Least(fits))
                   /\ ret.spec.version = Least(fits)
            /\ \A v \in Versions :
                   args.textLength = Capacity(v, args.errorCorrectionLevel)
                       => ret.spec.version <= v
            /\ (args.textLength = 19 /\ args.errorCorrectionLevel = "L")
                   => (ret.spec.version = 1 /\ ret.spec.module = 21)
            /\ (args.textLength = 20 /\ args.errorCorrectionLevel = "L")
                   => (ret.spec.version = 2 /\ ret.spec.module = 25)
            /\ (args.textLength = 10000 /\ args.errorCorrectionLevel = "H")
                   => ret.error = "TextTooLong"

\* a text exactly as long as the capacity of a version above 1 was selected
C1_Witness ==
    /\ SelectReturned
    /\ ret.error = "none"
    /\ ret.spec.version > 1
    /\ args.textLength = Capacity(ret.spec.version, args.errorCorrectionLevel)

\* C6: for every level of {L,M,Q,H}, dataCodewords of getQRSpec does not
\* decrease from a version to the next over the scanned range 1..10, the step
\* from the table entries (1..5) to the estimated entries (6..10) included.
C6_CapacityMonotone ==
    (args.fn = "findBestConfig" /\ args.errorCorrectionLevel \in Levels) =>
        \A v \in Versions \ {MaxVersion} :
            Capacity(v, args.errorCorrectionLevel)
                <= Capacity(v + 1, args.errorCorrectionLevel)

\* the scan went past the table entries and returned an estimated entry
C6_Witness ==
    /\ SelectReturned
    /\ ret.error = "none"
    /\ ret.spec.version \notin DOMAIN QR_SPECIFICATIONS
    /\ args.textLength > Capacity(5, args.errorCorrectionLevel)

ErrorKinds == {"NoContext", "UnsupportedEncoding", "UnsupportedLevel", "TextTooLong"}

DrawingOps == {"fillRect", "moveTo", "lineTo", "stroke"}

\* the options after the defaults of the destructuring
EncodingOf(config_) == Default(config_.encodingType, "binary")
LevelOf(config_) == Default(config_.errorCorrectionLevel, "L")

\* the inputs have one of the four faults the validation is about
Invalid ==
    \/ ~ canva.hasContext
    \/ EncodingOf(config) # "binary"
    \/ LevelOf(config) \notin Levels
    \/ Fitting(text, LevelOf(config)) = {}

\* C2: a run of textToCanvas that ends in an error (no context, an encoding
\* type other than 'binary', a level outside {L,M,Q,H}, a text too long) has
\* issued no drawing call and left the surface as it was; each of these
\* faults does end the run in an error.
C2_NoDrawingOnError ==
    /\ status \in ErrorKinds =>
           /\ \A k \in DOMAIN calls : calls[k].op \notin DrawingOps
           /\ calls = <<>>
           /\ pixels = {}
    /\ (renders > 0 /\ Invalid) => status \in ErrorKinds

\* a run on a canvas with a context and valid options ended in TextTooLong
C2_Witness ==
    /\ renders > 0
    /\ status = "TextTooLong"
    /\ canva.hasContext
    /\ Fitting(text, LevelOf(config)) = {}

\* C3 (as claimed): for every positive width and positive module count n,
\* getBlockSize returns b with 0 < b*n <= width and width - b*n < n.
C3_BlockSizePositive ==
    (ret # NoRet /\ args.fn = "getBlockSize" /\ args.width > 0) =>
        /\ 0 < ret.value * args.blockNumber
        /\ ret.value * args.blockNumber <= args.width
        /\ args.width - ret.value * args.blockNumber < args.blockNumber

\* C4 (as claimed): when the width is smaller than the module count of the
\* selected version, textToCanvas fails with SurfaceTooSmall and issues no
\* drawing call.
C4_SurfaceTooSmall ==
    (/\ renders > 0
     /\ ~ Invalid
     /\ canva.width < getQRSpec(Least(Fitting(text, LevelOf(config)))).module)
        => (status = "SurfaceTooSmall" /\ calls = <<>>)

Range(seq) == {seq[k] : k \in DOMAIN seq}

Rendered == renders > 0 /\ status = "done"

\* the centres of the alignment patterns drawn by the last run
DrawnCentres == {<<entries[k].x, entries[k].y>> : k \in DOMAIN entries}

\* the rectangles of the alignment patterns in the calls of the last run are
\* those of the entries, five for each, in the same order
AlignmentCallsMatchEntries ==
    SelectSeq(calls, LAMBDA c : c.part = "alignment") = rectsOf(entries, blockSize)

\* C5 (as claimed): for the version with axis [6,22] and 29 modules, the set
\* of alignment centres drawn is exactly {(6,6)}.
C5_OnlyTopLeftCentre ==
    (Rendered /\ versionSpec.alignmentPositions = <<6, 22>> /\ versionSpec.module = 29)
        => DrawnCentres = {<<6, 6>>}

\* C5 (amended): for the version with axis [6,22] and 29 modules (version 3),
\* the set of alignment centres drawn is exactly {(22,22)}, drawn once:
\* (6,6), (6,22) and (22,6) lie in the finder exclusion zones.
C5_OnlyInnerCentre ==
    (Rendered /\ versionSpec.alignmentPositions = <<6, 22>> /\ versionSpec.module = 29)
        => /\ versionSpec.version = 3
           /\ DrawnCentres = {<<22, 22>>}
           /\ Len(entries) = 1
           /\ AlignmentCallsMatchEntries

\* version 3 was rendered with a positive block size
C5_Witness ==
    /\ Rendered
    /\ versionSpec.version = 3
    /\ versionSpec.alignmentPositions = <<6, 22>>
    /\ blockSize > 0
    /\ entries # <<>>

GridCalls == {k \in DOMAIN calls : calls[k].part = "grid"}
ModeFills == {k \in DOMAIN calls : IsFill(calls[k]) /\ calls[k].part = "mode"}
PatternFills ==
    {k \in DOMAIN calls :
        IsFill(calls[k]) /\ calls[k].part \in {"finder", "strip", "alignment"}}

\* C8 (as claimed): in a run with the debug flag set, every call of
\* addBlockGrid happens before any fillRect of a structural module (mode
\* indicator, finder patterns, fixed strip, alignment patterns).
C8_GridFirst ==
    (Rendered /\ config.isDebugContext) =>
        \A g \in GridCalls : \A f \in ModeFills \cup PatternFills : g < f

\* C8 (amended): in a run with the debug flag set, the calls of addBlockGrid
\* (the line width, 2n moveTo/lineTo pairs, one stroke) happen after the
\* fillRect of the mode indicator and before every fillRect of the finder
\* patterns, the fixed strip and the alignment patterns; without the flag no
\* grid call is issued.
C8_GridAfterModeIndicator ==
    Rendered =>
        IF config.isDebugContext
        THEN /\ Cardinality(GridCalls) = 4 * versionSpec.module + 2
             /\ calls[Least(GridCalls) + 4 * versionSpec.module + 1].op = "stroke"
             /\ ModeFills # {}
             /\ \A g \in GridCalls :
                    /\ \A f \in ModeFills : f < g
                    /\ \A f \in PatternFills : g < f
        ELSE GridCalls = {}

\* a debug run of a version with alignment patterns
C8_Witness ==
    /\ Rendered
    /\ config.isDebugContext
    /\ GridCalls # {}
    /\ \E k \in PatternFills : calls[k].part = "alignment"
    /\ \E k \in PatternFills : calls[k].part = "strip"

\* the three exclusion zones, as the claim states them
InExclusionZone(x, y, moduleCount) ==
    \/ (x <= 8 /\ y <= 8)
    \/ (x >= moduleCount - 8 /\ y <= 8)
    \/ (x <= 8 /\ y >= moduleCount - 8)

\* C9: for every version 1..10, one call of addAlignementPattern draws a
\* pattern at a coordinate (x,y) of the self-product of the alignment axis
\* if and only if (x,y) is outside the three exclusion zones, and it draws
\* each such coordinate exactly once.
C9_AlignmentExactlySurvivors ==
    Rendered =>
        LET axis == Range(getQRSpec(versionSpec.version).alignmentPositions)
        IN  /\ versionSpec.version \in Versions
            /\ DrawnCentres \subseteq axis \X axis
            /\ \A x \in axis, y \in axis :
                   Cardinality({k \in DOMAIN entries :
                                   entries[k].x = x /\ entries[k].y = y})
                       = IF InExclusionZone(x, y, versionSpec.module) THEN 0 ELSE 1
            /\ AlignmentCallsMatchEntries

\* a version whose off-diagonal coordinates survive was rendered
C9_Witness ==
    /\ Rendered
    /\ Len(entries) = 3
    /\ \E k \in DOMAIN entries : entries[k].x # entries[k].y

\* the 5x5 modules around a centre and the 7x7 modules of a finder pattern
AlignmentFootprint(e) == ((e.x - 2)..(e.x + 2)) \X ((e.y - 2)..(e.y + 2))
FinderFootprint(origin) == (origin[1]..(origin[1] + 6)) \X (origin[2]..(origin[2] + 6))
FinderOriginsClaimed(moduleCount) ==
    {<<0, 0>>, <<moduleCount - 7, 0>>, <<0, moduleCount - 7>>}

\* C10: after a full render of any version 1..10, no module of the 5x5
\* footprint of a drawn alignment pattern lies in the 7x7 footprint of a
\* finder pattern at (0,0), (moduleCount-7,0) or (0,moduleCount-7), and all
\* these footprints lie within the grid 0..moduleCount-1 on both axes.
C10_AlignmentClearOfFinders ==
    Rendered =>
        LET n == versionSpec.module
            grid == (0..(n - 1)) \X (0..(n - 1))
        IN  /\ \A o \in FinderOriginsClaimed(n) : FinderFootprint(o) \subseteq grid
            /\ \A k \in DOMAIN entries :
                   /\ AlignmentFootprint(entries[k]) \subseteq grid
                   /\ \A o \in FinderOriginsClaimed(n) :
                          AlignmentFootprint(entries[k]) \cap FinderFootprint(o) = {}
            \* and on the surface: the pixels of the alignment rectangles and
            \* of the finder rectangles are apart and within the symbol
            /\ LET alignPx == FilledBy(SelectSeq(calls, LAMBDA c : c.part = "alignment"))
                   finderPx == FilledBy(SelectSeq(calls, LAMBDA c : c.part = "finder"))
                   extent == 0..(n * blockSize - 1)
               IN  /\ alignPx \cap finderPx = {}
                   /\ alignPx \cup finderPx \subseteq extent \X extent

\* the largest version was rendered with its three alignment patterns
C10_Witness ==
    /\ Rendered
    /\ versionSpec.version = MaxVersion
    /\ blockSize > 0
    /\ Len(entries) = 3

\* the fills of the fixed pattern in the last run, in the order of the calls
StripCalls == SelectSeq(calls, LAMBDA c : c.part = "strip")

\* the module indices of the marks the last run drew on row 6 and on column
\* 6, read off the rectangles (a mark is one module wide and high)
RowMarks == {c.x \div blockSize : c \in {d \in Range(StripCalls) : d.y = 6 * blockSize /\ d.x # 6 * blockSize}}
ColumnMarks == {c.y \div blockSize : c \in {d \in Range(StripCalls) : d.x = 6 * blockSize /\ d.y # 6 * blockSize}}

\* the indices 8, 10, 12, ... of count marks
EvenOffsets(count) == {8 + 2 * i : i \in 0..(count - 1)}

\* C11: for the module count of every supported version 1..10, the fixed
\* pattern drawn by addQrAnchor consists of exactly ((moduleCount-14)-1)/2
\* single-module marks on row 6 and as many on column 6, at the module
\* indices 8, 10, 12, ..., each at least 8 and at most moduleCount-9, so no
\* mark overlaps the 7x7 footprint of a finder pattern.
C11_FixedStripBetweenFinders ==
    Rendered =>
        LET n == versionSpec.module
            count == ((n - 14) - 1) \div 2
        IN  /\ ((n - 14) - 1) % 2 = 0
            /\ Len(StripCalls) = 2 * count
            /\ blockSize > 0 =>
                   /\ \A k \in DOMAIN StripCalls :
                          /\ StripCalls[k].w = blockSize /\ StripCalls[k].h = blockSize
                          /\ StripCalls[k].x % blockSize = 0
                          /\ StripCalls[k].y % blockSize = 0
                          /\ StripCalls[k].x = 6 * blockSize \/ StripCalls[k].y = 6 * blockSize
                   /\ RowMarks = EvenOffsets(count)
                   /\ ColumnMarks = EvenOffsets(count)
                   /\ Cardinality(Range(StripCalls)) = 2 * count
                   /\ \A m \in RowMarks \cup ColumnMarks : m >= 8 /\ m <= n - 9
                   /\ \A m \in RowMarks, o \in FinderOriginsClaimed(n) :
                          <<m, 6>> \notin FinderFootprint(o)
                   /\ \A m \in ColumnMarks, o \in FinderOriginsClaimed(n) :
                          <<6, m>> \notin FinderFootprint(o)
                   /\ FilledBy(StripCalls)
                          \cap FilledBy(SelectSeq(calls, LAMBDA c : c.part = "finder")) = {}

\* the largest version was rendered with a positive block size: its strip
\* reaches the module next to the far finder patterns
C11_Witness ==
    /\ Rendered
    /\ versionSpec.version = MaxVersion
    /\ blockSize > 0
    /\ versionSpec.module - 9 \in RowMarks
    /\ versionSpec.module - 9 \in ColumnMarks
    /\ 8 \in RowMarks

====
